---- MODULE Spec2Model ----
(***************************************************************************)
(* A model of kurma's boot-time steps (init/bootstrap.go) and of the       *)
(* manifest scan of the client (client/cli/commands/create/cmd_create.go). *)
(*                                                                         *)
(* Five state machines share the variables of this module:                *)
(*   Spec         createSystemMounts followed by mountCgroups              *)
(*   NetSpec      configureNetwork                                         *)
(*   ManifestSpec findManifest                                             *)
(*   CreateSpec   the create command of the client                         *)
(*   BootSpec     the boot run, from the configuration to the RPC service  *)
(* Paths are sequences of path components: "/dev/pts" is <<"dev","pts">>.  *)
(* Names of links and device fields are sequences of characters.          *)
(***************************************************************************)
EXTENDS Integers, Sequences, FiniteSets, TLC

VARIABLES
  \* ---- createSystemMounts / mountCgroups ----
  pc,              \* position of the boot run
  procStat,        \* what Lstat / proc.MountPoints of /proc/mounts yield
  mountTable,      \* the kernel's mount table: the set of mounted targets
  existingMounts,  \* the snapshot createSystemMounts takes of it
  mountIdx,        \* index into systemMounts of the next entry
  cgIdx,           \* index into cgroupTypes of the next controller
  mountLog,        \* every handleMount call so far: [target, ok]
  mountsRet,       \* what createSystemMounts returned
  cgroupsRet,      \* what mountCgroups returned
  useHierarchy,    \* content of memory.use_hierarchy
  hierWrite,       \* outcome of the open and the write of that file
  \* ---- configureNetwork ----
  netPc,           \* position inside configureNetwork
  netConfig,       \* r.config.NetworkConfig; present = FALSE when it is nil
  links,           \* what netlink.LinkList returns: the link names
  linkIdx,         \* index into links of the next link
  ifaceLog,        \* per link dealt with: [link, entry (0: none), ok]
  routeLog,        \* every netlink.RouteAdd call so far: [gw, ok]
  resolvExists,    \* /etc/resolv.conf exists
  resolvLines,     \* its lines
  fdWritable,      \* the descriptor of /etc/resolv.conf accepts writes
  dnsIdx,          \* index into DNS of the next server
  netRet,          \* what configureNetwork returned
  netFail,         \* the call whose error configureNetwork returned
  envRefused,      \* the environment refused a remove, create or write
  \* ---- findManifest ----
  fmPc,            \* position inside findManifest
  archive,         \* the stream: [detectOk, entries]; an entry is
                   \* [name, payload, fault]
  entryIdx,        \* the number of arch.Next calls made
  fmResult,        \* what findManifest returned: [kind, data]
  fpos,            \* the offset of the stream findManifest reads from
  \* ---- create (client) ----
  crPc,            \* position inside create
  crCalls,         \* the calls made on the server, in order:
                   \* [op, ok, id, data]
  uploadId,        \* resp.ImageUploadId
  crRet,           \* what create returned
  crFail,          \* the call whose error create returned
  \* ---- the rest of the boot run ----
  stepLog,         \* the steps that have returned, in order: [step, ret]
  stepRet,         \* what the step that just ran returned
  cfgFile,         \* the configuration file: notexist, openerr,
                   \* unparseable or valid
  diskConfig,      \* what a valid file decodes to
  config,          \* r.config: [Hostname, Modules, Paths]
  mergeCalls,      \* the number of mergeConfig calls
  images,          \* r.config.InitContainers
  icIdx,           \* index into images of the next image
  icLog,           \* the calls of startInitContainers, in order:
                   \* [n, stage, ok, offset]
  readOnly,        \* the boot includes the read-only remount
  rpcStarted,      \* the RPC server has been started
  rpcCreates       \* containers created through the RPC service

bootVars == <<pc, procStat, mountTable, existingMounts, mountIdx, cgIdx,
              mountLog, mountsRet, cgroupsRet, useHierarchy, hierWrite>>

netVars == <<netPc, netConfig, links, linkIdx, ifaceLog, routeLog, resolvExists,
             resolvLines, fdWritable, dnsIdx, netRet, netFail, envRefused>>

fmVars == <<fmPc, archive, entryIdx, fmResult, fpos>>

crVars == <<crPc, crCalls, uploadId, crRet, crFail>>

seqVars == <<stepLog, stepRet, cfgFile, diskConfig, config, mergeCalls, images,
             icIdx, icLog, readOnly, rpcStarted, rpcCreates>>

vars == <<bootVars, netVars, fmVars, crVars, seqVars>>

\* Bounds of the inputs
MaxLinks      == 2
MaxInterfaces == 2
MaxDNS        == 2
MaxEntries    == 2
ChunkSize     == 2
MaxImages     == 2
InitImageLen  == 2
MaxRpcCreates == 1

----------------------------------------------------------------------------
(* Paths *)

cgroupsMount == <<"sys", "fs", "cgroup">>

\* The first component of each element of systemMounts: the mount location.
systemMountsPtsFirst ==
  << <<"dev", "pts">>,
     <<"dev">>,
     <<"proc">>,
     <<"sys">>,
     <<"tmp">>,
     <<"var", "kurma">>,
     cgroupsMount >>

systemMounts ==
  << <<"dev">>,
     <<"dev", "pts">>,
     <<"proc">>,
     <<"sys">>,
     <<"tmp">>,
     <<"var", "kurma">>,
     cgroupsMount >>

cgroupTypes == <<"blkio", "cpu", "cpuacct", "devices", "memory">>

\* filepath.Join(cgroupsMount, cgrouptype)
cgroupLocation(cgrouptype) == Append(cgroupsMount, cgrouptype)

Range(s) == {s[i] : i \in 1..Len(s)}

SystemTargets == Range(systemMounts)
CgroupTargets == {cgroupLocation(cgroupTypes[i]) : i \in 1..Len(cgroupTypes)}
AllTargets    == SystemTargets \cup CgroupTargets

\* os.OpenFile: a descriptor can be written only when the flags ask for it;
\* O_RDONLY is the zero value, so flags without O_WRONLY or O_RDWR open
\* the file for reading.
Writable(flags) == ("O_WRONLY" \in flags) \/ ("O_RDWR" \in flags)

----------------------------------------------------------------------------
(* createSystemMounts *)

\* Line 87: the entry is skipped when its location is in the snapshot.
existsNever(location) == FALSE

exists(location) == location \in existingMounts

\* Lines 94-96: an error of handleMount ends createSystemMounts.
mountErrIgnored(ok) == FALSE

mountErr(ok) == ~ok

\* Lines 69-81: the snapshot of the existing mounts, or the early returns.
createSystemMountsCheck ==
  /\ pc = "Mounts.check"
  /\ IF procStat \in {"staterr", "readerr"}
       THEN /\ mountsRet' = "err"
            /\ pc' = "Mounts.ret"
            /\ UNCHANGED existingMounts
       ELSE /\ existingMounts' = IF procStat = "notexist" THEN {} ELSE mountTable
            /\ pc' = "Mounts.loop"
            /\ UNCHANGED mountsRet
  /\ UNCHANGED <<procStat, mountTable, mountIdx, cgIdx, mountLog, cgroupsRet,
                 useHierarchy, hierWrite>>
  /\ UNCHANGED <<netVars, fmVars, crVars, seqVars>>

\* Lines 83-98: one iteration of the loop over systemMounts, or the return
\* after the last one.
createSystemMountsStep ==
  /\ pc = "Mounts.loop"
  /\ IF mountIdx > Len(systemMounts)
       THEN /\ mountsRet' = "nil"
            /\ pc' = "Mounts.ret"
            /\ UNCHANGED <<mountIdx, mountLog, mountTable>>
       ELSE LET location == systemMounts[mountIdx] IN
            IF exists(location)
              THEN /\ mountIdx' = mountIdx + 1
                   /\ UNCHANGED <<pc, mountsRet, mountLog, mountTable>>
              ELSE \E ok \in BOOLEAN :
                     /\ mountLog' = Append(mountLog,
                            [by |-> "createSystemMounts", target |-> location, ok |-> ok])
                     /\ mountTable' = IF ok THEN mountTable \cup {location} ELSE mountTable
                     /\ IF mountErr(ok)
                          THEN /\ mountsRet' = "err"
                               /\ pc' = "Mounts.ret"
                               /\ UNCHANGED mountIdx
                          ELSE /\ mountIdx' = mountIdx + 1
                               /\ UNCHANGED <<pc, mountsRet>>
  /\ UNCHANGED <<procStat, existingMounts, cgIdx, cgroupsRet, useHierarchy,
                 hierWrite>>
  /\ UNCHANGED <<netVars, fmVars, crVars, seqVars>>

----------------------------------------------------------------------------
(* mountCgroups *)

\* Lines 126-128: an error of handleMount ends mountCgroups.
cgroupMountErrIgnored(ok) == FALSE

cgroupMountErr(ok) == ~ok

\* Lines 132-143: the result of opening memory.use_hierarchy for writing and
\* writing "1\n" to it; a write needs a descriptor opened for writing.
hierarchyResult(flags, openOk, writeOk) ==
  IF ~openOk THEN "openfailed"
  ELSE IF ~(Writable(flags) /\ writeOk) THEN "writefailed"
  ELSE "written"

\* Lines 144-146: an error of the hierarchy configuration ends the function.
hierarchyErrNever(res) == FALSE

hierarchyErrOpenOnly(res) == res = "openfailed"

hierarchyErr(res) == res # "written"

\* Lines 123-151: one iteration of the loop over cgroupTypes, the memory
\* hierarchy write included, or the return after the last one.
mountCgroupsStep ==
  /\ pc = "Cgroups.loop"
  /\ IF cgIdx > Len(cgroupTypes)
       THEN /\ cgroupsRet' = "nil"
            /\ pc' = "Cgroups.ret"
            /\ UNCHANGED <<cgIdx, mountLog, mountTable, useHierarchy, hierWrite>>
       ELSE LET cgrouptype == cgroupTypes[cgIdx]
                location   == cgroupLocation(cgrouptype) IN
            \E ok \in BOOLEAN :
              /\ mountLog' = Append(mountLog,
                     [by |-> "mountCgroups", target |-> location, ok |-> ok])
              /\ mountTable' = IF ok THEN mountTable \cup {location} ELSE mountTable
              /\ IF cgroupMountErr(ok)
                   THEN /\ cgroupsRet' = "err"
                        /\ pc' = "Cgroups.ret"
                        /\ UNCHANGED <<cgIdx, useHierarchy, hierWrite>>
                   ELSE IF cgrouptype = "memory" /\ ok
                     THEN \E openOk \in BOOLEAN, writeOk \in BOOLEAN :
                            LET res == hierarchyResult({"O_WRONLY", "O_TRUNC"},
                                                       openOk, writeOk) IN
                            /\ hierWrite' = res
                            /\ useHierarchy' = IF res = "written" THEN "1" ELSE useHierarchy
                            /\ IF hierarchyErr(res)
                                 THEN /\ cgroupsRet' = "err"
                                      /\ pc' = "Cgroups.ret"
                                      /\ UNCHANGED cgIdx
                                 ELSE /\ cgIdx' = cgIdx + 1
                                      /\ UNCHANGED <<pc, cgroupsRet>>
                     ELSE /\ cgIdx' = cgIdx + 1
                          /\ UNCHANGED <<pc, cgroupsRet, useHierarchy, hierWrite>>
  /\ UNCHANGED <<procStat, existingMounts, mountIdx, mountsRet>>
  /\ UNCHANGED <<netVars, fmVars, crVars, seqVars>>

----------------------------------------------------------------------------
(* The boot sequencer: a step runs only after the previous one returned nil *)

AfterMounts ==
  /\ pc = "Mounts.ret"
  /\ pc' = IF mountsRet = "nil" THEN "Cgroups.loop" ELSE "Aborted"
  /\ stepLog' = Append(stepLog, [step |-> "Mounts", ret |-> mountsRet])
  /\ UNCHANGED <<procStat, mountTable, existingMounts, mountIdx, cgIdx,
                 mountLog, mountsRet, cgroupsRet, useHierarchy, hierWrite>>
  /\ UNCHANGED <<stepRet, cfgFile, diskConfig, config, mergeCalls, images,
                 icIdx, icLog, readOnly, rpcStarted, rpcCreates>>
  /\ UNCHANGED <<netVars, fmVars, crVars>>

AfterCgroups ==
  /\ pc = "Cgroups.ret"
  /\ pc' = IF cgroupsRet = "nil" THEN "Env" ELSE "Aborted"
  /\ stepLog' = Append(stepLog, [step |-> "Cgroups", ret |-> cgroupsRet])
  /\ UNCHANGED <<procStat, mountTable, existingMounts, mountIdx, cgIdx,
                 mountLog, mountsRet, cgroupsRet, useHierarchy, hierWrite>>
  /\ UNCHANGED <<stepRet, cfgFile, diskConfig, config, mergeCalls, images,
                 icIdx, icLog, readOnly, rpcStarted, rpcCreates>>
  /\ UNCHANGED <<netVars, fmVars, crVars>>

----------------------------------------------------------------------------
(* configureNetwork *)

nilIP == <<>>

\* net.ParseIP on a dotted address, given as the sequence of its numbers:
\* four numbers of one byte each, else nil.
ParseIP(g) ==
  IF Len(g) = 4 /\ \A i \in 1..4 : g[i] \in 0..255 THEN g ELSE nilIP

\* regexp.MatchString(pattern, s) for patterns of literal characters, "."
\* and a postfix "*".  A "*" with nothing to repeat is a syntax error, and
\* the caller drops the error: no match.  The match is unanchored.
validPattern(p) ==
  \A i \in 1..Len(p) : p[i] = "*" => (i > 1 /\ p[i - 1] # "*")

charMatches(c, x) == c = "." \/ c = x

RECURSIVE matchHere(_, _, _, _)
matchHere(p, i, s, j) ==
  IF i > Len(p) THEN TRUE
  ELSE IF i < Len(p) /\ p[i + 1] = "*"
    THEN \E k \in 0..(Len(s) - j + 1) :
           /\ \A m \in j..(j + k - 1) : charMatches(p[i], s[m])
           /\ matchHere(p, i + 2, s, j + k)
    ELSE /\ j <= Len(s)
         /\ charMatches(p[i], s[j])
         /\ matchHere(p, i + 1, s, j + 1)

MatchString(pattern, s) ==
  /\ validPattern(pattern)
  /\ \E j \in 1..(Len(s) + 1) : matchHere(pattern, 1, s, j)

\* The selection the specification describes: exact equality over all
\* entries first, the regular expressions only when no entry is equal.
RECURSIVE firstExact(_, _, _)
firstExact(linkName, interfaces, k) ==
  IF k > Len(interfaces) THEN 0
  ELSE IF linkName = interfaces[k] THEN k
  ELSE firstExact(linkName, interfaces, k + 1)

RECURSIVE firstRegexp(_, _, _)
firstRegexp(linkName, interfaces, k) ==
  IF k > Len(interfaces) THEN 0
  ELSE IF MatchString(interfaces[k], linkName) THEN k
  ELSE firstRegexp(linkName, interfaces, k + 1)

netconfExactFirst(linkName, interfaces, k) ==
  IF firstExact(linkName, interfaces, k) # 0
    THEN firstExact(linkName, interfaces, k)
    ELSE firstRegexp(linkName, interfaces, k)

\* Lines 202-212: the loop over Interfaces from entry k on; the index of the
\* entry it breaks on, 0 when it runs off the end (netconf stays nil).
RECURSIVE netconfFrom(_, _, _)
netconfFrom(linkName, interfaces, k) ==
  IF k > Len(interfaces) THEN 0
  ELSE IF linkName = interfaces[k] THEN k
  ELSE IF MatchString(interfaces[k], linkName) THEN k
  ELSE netconfFrom(linkName, interfaces, k + 1)

\* Lines 187-195
configureNetworkStart ==
  /\ netPc = "start"
  /\ IF ~netConfig.present
       THEN /\ netRet' = "nil"
            /\ netPc' = "ret"
            /\ UNCHANGED netFail
       ELSE \E ok \in BOOLEAN :
              IF ok THEN /\ netPc' = "links"
                         /\ UNCHANGED <<netRet, netFail>>
                    ELSE /\ netRet' = "err"
                         /\ netFail' = "LinkList"
                         /\ netPc' = "ret"
  /\ UNCHANGED <<netConfig, links, linkIdx, ifaceLog, routeLog, resolvExists,
                 resolvLines, fdWritable, dnsIdx, envRefused>>
  /\ UNCHANGED <<bootVars, fmVars, crVars, seqVars>>

\* A variant in which an error of configureInterface is returned.
configureNetworkLinkFatal ==
  /\ netPc = "links"
  /\ linkIdx <= Len(links)
  /\ LET netconf == netconfFrom(links[linkIdx], netConfig.Interfaces, 1) IN
     IF netconf = 0
       THEN /\ ifaceLog' = Append(ifaceLog,
                 [link |-> links[linkIdx], entry |-> 0, ok |-> FALSE])
            /\ linkIdx' = linkIdx + 1
            /\ UNCHANGED <<netPc, netRet, netFail>>
       ELSE \E ok \in BOOLEAN :
              /\ ifaceLog' = Append(ifaceLog,
                   [link |-> links[linkIdx], entry |-> netconf, ok |-> ok])
              /\ IF ok THEN /\ linkIdx' = linkIdx + 1
                            /\ UNCHANGED <<netPc, netRet, netFail>>
                       ELSE /\ netRet' = "err"
                            /\ netFail' = "configureInterface"
                            /\ netPc' = "ret"
                            /\ UNCHANGED linkIdx
  /\ UNCHANGED <<netConfig, links, routeLog, resolvExists, resolvLines,
                 fdWritable, dnsIdx, envRefused>>
  /\ UNCHANGED <<bootVars, fmVars, crVars, seqVars>>

\* Lines 197-224: one iteration of the loop over the links.
configureNetworkLink ==
  /\ netPc = "links"
  /\ linkIdx <= Len(links)
  /\ LET netconf == netconfFrom(links[linkIdx], netConfig.Interfaces, 1) IN
     IF netconf = 0
       THEN ifaceLog' = Append(ifaceLog,
                 [link |-> links[linkIdx], entry |-> 0, ok |-> FALSE])
       ELSE \E ok \in BOOLEAN :
              ifaceLog' = Append(ifaceLog,
                 [link |-> links[linkIdx], entry |-> netconf, ok |-> ok])
  /\ linkIdx' = linkIdx + 1
  /\ UNCHANGED <<netPc, netConfig, links, routeLog, resolvExists, resolvLines,
                 fdWritable, dnsIdx, netRet, netFail, envRefused>>
  /\ UNCHANGED <<bootVars, fmVars, crVars, seqVars>>

\* Lines 226-245: the gateway, after the last link.  The route is added with
\* whatever ParseIP returned; an error of RouteAdd returns nil.
configureNetworkGateway ==
  /\ netPc = "links"
  /\ linkIdx > Len(links)
  /\ LET afterGateway == IF Len(netConfig.DNS) > 0 THEN "dns" ELSE "ret"
         retAfter     == IF Len(netConfig.DNS) > 0 THEN netRet ELSE "nil" IN
     IF netConfig.Gateway # <<>>
       THEN \E ok \in BOOLEAN :
              /\ routeLog' = Append(routeLog,
                    [gw |-> ParseIP(netConfig.Gateway), ok |-> ok])
              /\ IF ok THEN /\ netPc' = afterGateway
                            /\ netRet' = retAfter
                       ELSE /\ netPc' = "ret"
                            /\ netRet' = "nil"
       ELSE /\ netPc' = afterGateway
            /\ netRet' = retAfter
            /\ UNCHANGED routeLog
  /\ UNCHANGED <<netConfig, links, linkIdx, ifaceLog, resolvExists, resolvLines,
                 fdWritable, dnsIdx, netFail, envRefused>>
  /\ UNCHANGED <<bootVars, fmVars, crVars, seqVars>>

\* Lines 247-254: os.RemoveAll, then os.OpenFile with the flag os.O_CREATE.
configureNetworkOpen ==
  /\ netPc = "dns"
  /\ \E removeOk \in BOOLEAN, openOk \in BOOLEAN :
       IF ~removeOk
         THEN /\ netRet' = "err"
              /\ netFail' = "RemoveAll"
              /\ envRefused' = TRUE
              /\ netPc' = "ret"
              /\ UNCHANGED <<resolvExists, resolvLines, fdWritable>>
         ELSE IF ~openOk
           THEN /\ resolvExists' = FALSE
                /\ resolvLines' = <<>>
                /\ netRet' = "err"
                /\ netFail' = "OpenFile"
                /\ envRefused' = TRUE
                /\ netPc' = "ret"
                /\ UNCHANGED fdWritable
           ELSE /\ resolvExists' = TRUE
                /\ resolvLines' = <<>>
                /\ fdWritable' = Writable({"O_CREATE"})
                /\ netPc' = "write"
                /\ UNCHANGED <<netRet, netFail, envRefused>>
  /\ UNCHANGED <<netConfig, links, linkIdx, ifaceLog, routeLog, dnsIdx>>
  /\ UNCHANGED <<bootVars, fmVars, crVars, seqVars>>

\* Lines 255-262: one Fprintf of the loop over DNS, or the return after the
\* last one.  A write on a descriptor not opened for writing fails.
configureNetworkWrite ==
  /\ netPc = "write"
  /\ IF dnsIdx > Len(netConfig.DNS)
       THEN /\ netRet' = "nil"
            /\ netPc' = "ret"
            /\ UNCHANGED <<resolvLines, dnsIdx, netFail, envRefused>>
       ELSE \E accepted \in BOOLEAN :
              IF fdWritable /\ accepted
                THEN /\ resolvLines' = Append(resolvLines,
                           <<"nameserver", netConfig.DNS[dnsIdx]>>)
                     /\ dnsIdx' = dnsIdx + 1
                     /\ UNCHANGED <<netPc, netRet, netFail, envRefused>>
                ELSE /\ netRet' = "err"
                     /\ netFail' = "Fprintf"
                     /\ envRefused' = (envRefused \/ fdWritable)
                     /\ netPc' = "ret"
                     /\ UNCHANGED <<resolvLines, dnsIdx>>
  /\ UNCHANGED <<netConfig, links, linkIdx, ifaceLog, routeLog, resolvExists,
                 fdWritable>>
  /\ UNCHANGED <<bootVars, fmVars, crVars, seqVars>>

----------------------------------------------------------------------------
(* findManifest (client/cli/commands/create/cmd_create.go) *)

\* filepath.Clean on a path given as its components, the pieces between the
\* separators: "./manifest" is <<".", "manifest">>, "/manifest" is
\* <<"", "manifest">>.  Empty and "." components go, ".." takes back the
\* component before it, a rooted path stays rooted.
RECURSIVE cleanFrom(_, _, _, _)
cleanFrom(p, i, out, rooted) ==
  IF i > Len(p) THEN out
  ELSE IF p[i] \in {"", "."} THEN cleanFrom(p, i + 1, out, rooted)
  ELSE IF p[i] = ".."
    THEN IF out # <<>> /\ out[Len(out)] # ".."
           THEN cleanFrom(p, i + 1, SubSeq(out, 1, Len(out) - 1), rooted)
         ELSE IF ~rooted
           THEN cleanFrom(p, i + 1, Append(out, ".."), rooted)
         ELSE cleanFrom(p, i + 1, out, rooted)
  ELSE cleanFrom(p, i + 1, Append(out, p[i]), rooted)

Clean(p) ==
  LET rooted == Len(p) >= 2 /\ p[1] = ""
      out    == cleanFrom(p, 1, <<>>, rooted) IN
  IF rooted THEN (IF out = <<>> THEN <<"", "">> ELSE <<"">> \o out)
  ELSE IF out = <<>> THEN <<".">>
  ELSE out

\* Line 91, without the Clean.
isManifestRaw(name) == name = <<"manifest">>

\* Line 91: filepath.Clean(header.Name) != "manifest"
isManifest(name) == Clean(name) = <<"manifest">>

\* ioutil.ReadAll: Read after Read until the end of the entry's payload.
RECURSIVE readAll(_, _, _)
readAll(payload, i, buf) ==
  IF i > Len(payload) THEN buf
  ELSE readAll(payload, i + 1, Append(buf, payload[i]))

\* arch.Next for the n-th time: the reader first skips what is left of the
\* entry before, then reads a header; io.EOF after the last entry.
archNext(entries, n) ==
  IF n > 1 /\ entries[n - 1].fault = "payload" THEN "err"
  ELSE IF n > Len(entries) THEN "EOF"
  ELSE IF entries[n].fault = "header" THEN "err"
  ELSE "header"

\* The bytes of the stream: per entry one header block (0) and the payload.
RECURSIVE imageFrom(_, _)
imageFrom(entries, k) ==
  IF k > Len(entries) THEN <<>>
  ELSE <<0>> \o entries[k].payload \o imageFrom(entries, k + 1)

Image == imageFrom(archive.entries, 1)

\* The offset at which the header of entry n ends.
RECURSIVE headerEnd(_, _)
headerEnd(entries, n) ==
  IF n = 1 THEN 1
  ELSE headerEnd(entries, n - 1) + Len(entries[n - 1].payload) + 1

Max2(a, b) == IF a >= b THEN a ELSE b
Min2(a, b) == IF a <= b THEN a ELSE b

\* Lines 77-80; the detection reads the start of the stream.
findManifestDetect ==
  /\ fmPc = "detect"
  /\ IF archive.detectOk
       THEN /\ fmPc' = "next"
            /\ UNCHANGED fmResult
       ELSE /\ fmPc' = "ret"
            /\ fmResult' = [kind |-> "ioerr", data |-> <<>>]
  /\ fpos' \in 0..Min2(1, Len(Image))
  /\ UNCHANGED <<archive, entryIdx>>
  /\ UNCHANGED <<bootVars, netVars, crVars, seqVars>>

\* Lines 82-100: one iteration of the loop.  The stream is read at least
\* up to the end of what the iteration returns, and the readers between
\* the stream and the loop may have read further.
findManifestNext ==
  /\ fmPc = "next"
  /\ entryIdx' = entryIdx + 1
  /\ LET n      == entryIdx + 1
         header == archNext(archive.entries, n) IN
     IF header = "EOF"
       THEN /\ fmResult' = [kind |-> "notfound", data |-> <<>>]
            /\ fmPc' = "ret"
            /\ fpos' = Len(Image)
     ELSE IF header = "err"
       THEN /\ fmResult' = [kind |-> "ioerr", data |-> <<>>]
            /\ fmPc' = "ret"
            /\ fpos' \in fpos..Len(Image)
     ELSE IF ~isManifest(archive.entries[n].name)
       THEN /\ UNCHANGED <<fmPc, fmResult>>
            /\ fpos' \in Max2(fpos, headerEnd(archive.entries, n))..Len(Image)
     ELSE IF archive.entries[n].fault = "payload"
       THEN /\ fmResult' = [kind |-> "ioerr", data |-> <<>>]
            /\ fmPc' = "ret"
            /\ fpos' \in Max2(fpos, headerEnd(archive.entries, n))..Len(Image)
       ELSE /\ fmResult' = [kind |-> "payload",
                            data |-> readAll(archive.entries[n].payload, 1, <<>>)]
            /\ fmPc' = "ret"
            /\ fpos' \in Max2(fpos, headerEnd(archive.entries, n)
                                       + Len(archive.entries[n].payload))..Len(Image)
  /\ UNCHANGED archive
  /\ UNCHANGED <<bootVars, netVars, crVars, seqVars>>

----------------------------------------------------------------------------
(* create (client/cli/commands/create/cmd_create.go) *)

UploadIds == {7, 9}

\* Line 65, io.Copy: the number of bytes one Read hands to one Write, a
\* buffer of ChunkSize bytes or what is left of the file.
copyReadByte(remaining) == 1

copyRead(remaining) == Min2(ChunkSize, remaining)

\* pb.ByteStreamWriter.Write: one message on the stream per Write, tagged
\* with the upload identifier the writer was built with.
byteStreamWrite(id, p, ok) == [op |-> "chunk", ok |-> ok, id |-> id, data |-> p]

call(op, ok, id) == [op |-> op, ok |-> ok, id |-> id, data |-> <<>>]

\* Lines 46-48: an error of the rewind ends create.
seekErrIgnored(ok) == FALSE

seekErr(ok) == ~ok

\* Lines 55-58: an error of Client.Create ends create.
createErrIgnored(ok) == FALSE

createErr(ok) == ~ok

\* Lines 65-67: an error of a Write ends the copy and create.
writeErrIgnored(ok) == FALSE

writeErr(ok) == ~ok

\* Lines 42-45: an error of findManifest ends create.
manifestErrIgnored(res) == FALSE

manifestErr(res) == res.kind # "payload"

\* Lines 35-39: os.Open, then the call of findManifest.
createOpen ==
  /\ crPc = "open"
  /\ \E ok \in BOOLEAN :
       IF ok THEN /\ crPc' = "findManifest"
                  /\ fmPc' = "detect"
                  /\ UNCHANGED <<crRet, crFail>>
             ELSE /\ crPc' = "ret"
                  /\ crRet' = "err"
                  /\ crFail' = "Open"
                  /\ UNCHANGED fmPc
  /\ UNCHANGED <<crCalls, uploadId, archive, entryIdx, fmResult, fpos>>
  /\ UNCHANGED <<bootVars, netVars, seqVars>>

\* Lines 42-48: the return of findManifest, then f.Seek(0, 0).
createSeek ==
  /\ crPc = "findManifest"
  /\ fmPc = "ret"
  /\ IF manifestErr(fmResult)
       THEN /\ crPc' = "ret"
            /\ crRet' = "err"
            /\ crFail' = "findManifest"
            /\ UNCHANGED fpos
       ELSE \E ok \in BOOLEAN :
              /\ fpos' = IF ok THEN 0 ELSE fpos
              /\ IF seekErr(ok)
                   THEN /\ crPc' = "ret"
                        /\ crRet' = "err"
                        /\ crFail' = "Seek"
                   ELSE /\ crPc' = "Create"
                        /\ UNCHANGED <<crRet, crFail>>
  /\ UNCHANGED <<crCalls, uploadId, fmPc, archive, entryIdx, fmResult>>
  /\ UNCHANGED <<bootVars, netVars, seqVars>>

\* Lines 50-58: Client.Create with the manifest.
createCreate ==
  /\ crPc = "Create"
  /\ \E ok \in BOOLEAN, id \in UploadIds :
       /\ crCalls' = Append(crCalls, call("Create", ok, IF ok THEN id ELSE 0))
       /\ uploadId' = IF ok THEN id ELSE uploadId
       /\ IF createErr(ok)
            THEN /\ crPc' = "ret"
                 /\ crRet' = "err"
                 /\ crFail' = "Create"
            ELSE /\ crPc' = "UploadImage"
                 /\ UNCHANGED <<crRet, crFail>>
  /\ UNCHANGED fmVars
  /\ UNCHANGED <<bootVars, netVars, seqVars>>

\* Lines 59-64: Client.UploadImage opens the stream.
createUploadImage ==
  /\ crPc = "UploadImage"
  /\ \E ok \in BOOLEAN :
       /\ crCalls' = Append(crCalls, call("UploadImage", ok, 0))
       /\ IF ok THEN /\ crPc' = "copy"
                     /\ UNCHANGED <<crRet, crFail>>
                ELSE /\ crPc' = "ret"
                     /\ crRet' = "err"
                     /\ crFail' = "UploadImage"
  /\ UNCHANGED uploadId
  /\ UNCHANGED fmVars
  /\ UNCHANGED <<bootVars, netVars, seqVars>>

\* Lines 65-67: one Read and one Write of io.Copy, or its end at the end of
\* the file.
createCopy ==
  /\ crPc = "copy"
  /\ IF fpos >= Len(Image)
       THEN /\ crPc' = "CloseAndRecv"
            /\ UNCHANGED <<crCalls, crRet, crFail, fpos>>
       ELSE \E readOk \in BOOLEAN, writeOk \in BOOLEAN :
              IF ~readOk
                THEN /\ crPc' = "ret"
                     /\ crRet' = "err"
                     /\ crFail' = "Read"
                     /\ UNCHANGED <<crCalls, fpos>>
                ELSE LET n == copyRead(Len(Image) - fpos) IN
                     /\ fpos' = fpos + n
                     /\ crCalls' = Append(crCalls,
                          byteStreamWrite(uploadId, SubSeq(Image, fpos + 1, fpos + n), writeOk))
                     /\ IF writeErr(writeOk)
                          THEN /\ crPc' = "ret"
                               /\ crRet' = "err"
                               /\ crFail' = "Write"
                          ELSE UNCHANGED <<crPc, crRet, crFail>>
  /\ UNCHANGED <<uploadId, fmPc, archive, entryIdx, fmResult>>
  /\ UNCHANGED <<bootVars, netVars, seqVars>>

\* Lines 68-73: stream.CloseAndRecv, then the return.
createCloseAndRecv ==
  /\ crPc = "CloseAndRecv"
  /\ \E ok \in BOOLEAN :
       /\ crCalls' = Append(crCalls, call("CloseAndRecv", ok, 0))
       /\ crRet' = IF ok THEN "nil" ELSE "err"
       /\ crFail' = IF ok THEN crFail ELSE "CloseAndRecv"
  /\ crPc' = "ret"
  /\ UNCHANGED uploadId
  /\ UNCHANGED fmVars
  /\ UNCHANGED <<bootVars, netVars, seqVars>>

----------------------------------------------------------------------------
(* The other steps of the boot run (init/bootstrap.go) *)

mountVars == <<procStat, mountTable, existingMounts, mountIdx, cgIdx, mountLog,
               mountsRet, cgroupsRet, useHierarchy, hierWrite>>

\* kurmaConfig.mergeConfig: a field of the file wins when it is not empty.
mergeConfig(cfg, disk) ==
  [Hostname |-> IF disk.Hostname # "" THEN disk.Hostname ELSE cfg.Hostname,
   Modules  |-> IF disk.Modules # <<>> THEN disk.Modules ELSE cfg.Modules,
   Paths    |-> IF disk.Paths # "" THEN disk.Paths ELSE cfg.Paths]

\* Lines 37-39: an error of the decoder ends loadConfigurationFile.
decodeErrIgnored(file) == FALSE

decodeErr(file) == file = "unparseable"

\* Lines 26-43
loadConfigurationFile ==
  /\ pc = "Config"
  /\ pc' = "Config.ret"
  /\ IF cfgFile = "notexist"
       THEN /\ stepRet' = "nil"
            /\ UNCHANGED <<config, mergeCalls>>
     ELSE IF cfgFile = "openerr"
       THEN /\ stepRet' = "err"
            /\ UNCHANGED <<config, mergeCalls>>
     ELSE IF decodeErr(cfgFile)
       THEN /\ stepRet' = "err"
            /\ UNCHANGED <<config, mergeCalls>>
       ELSE /\ config' = mergeConfig(config, diskConfig)
            /\ mergeCalls' = mergeCalls + 1
            /\ stepRet' = "nil"
  /\ UNCHANGED <<stepLog, cfgFile, diskConfig, images, icIdx, icLog, readOnly,
                 rpcStarted, rpcCreates>>
  /\ UNCHANGED <<mountVars, netVars, fmVars, crVars>>

\* What a step that touches none of the modelled state leaves alone.
stepFrame ==
  /\ UNCHANGED <<stepLog, cfgFile, diskConfig, config, mergeCalls, images, icIdx,
                 icLog, readOnly, rpcStarted, rpcCreates>>
  /\ UNCHANGED <<mountVars, netVars, fmVars, crVars>>

\* Lines 103-106
configureEnvironment ==
  /\ pc = "Env"
  /\ pc' = "Env.ret"
  /\ stepRet' = "nil"
  /\ stepFrame

\* Lines 155-167: a module that fails to load is logged only.
loadModules ==
  /\ pc = "Modules"
  /\ pc' = "Modules.ret"
  /\ stepRet' = "nil"
  /\ stepFrame

\* Lines 171-181: a hostname that cannot be set is logged only.
configureHostname ==
  /\ pc = "Hostname"
  /\ pc' = "Hostname.ret"
  /\ stepRet' = "nil"
  /\ stepFrame

\* Lines 267-278
createDirectories ==
  /\ pc = "Directories"
  /\ pc' = "Directories.ret"
  /\ IF config.Paths = ""
       THEN stepRet' = "nil"
       ELSE \E ok \in BOOLEAN : stepRet' = IF ok THEN "nil" ELSE "err"
  /\ stepFrame

\* Lines 306-321
launchManager ==
  /\ pc = "Manager"
  /\ pc' = "Manager.ret"
  /\ \E ok \in BOOLEAN : stepRet' = IF ok THEN "nil" ELSE "err"
  /\ stepFrame

event(n, stage, ok, offset) == [n |-> n, stage |-> stage, ok |-> ok, offset |-> offset]

\* Lines 341-344: an error of the rewind ends the pipeline of the image.
icSeekErrIgnored(ok) == FALSE

icSeekErr(ok) == ~ok

\* Lines 327-351: the calls of the closure for image n.  readTo is the
\* offset findManifest leaves the stream at.
pipeline(n, retrieveOk, manifestOk, seekOk, createOk, readTo) ==
  LET retrieved == <<event(n, "RetrieveImage", retrieveOk, 0)>>
      scanned   == Append(retrieved, event(n, "findManifest", manifestOk, readTo))
      offset    == IF seekOk THEN 0 ELSE readTo
      rewound   == Append(scanned, event(n, "Seek", seekOk, offset)) IN
  IF ~retrieveOk THEN retrieved
  ELSE IF ~manifestOk THEN scanned
  ELSE IF icSeekErr(seekOk) THEN rewound
  ELSE Append(rewound, event(n, "Create", createOk, offset))

\* Lines 326, 352: the image after image n, whatever its pipeline did.
icNextStop(n, log) == IF log[Len(log)].ok THEN n + 1 ELSE Len(images) + 1

icNext(n, log) == n + 1

\* Lines 325-354: the pipeline of one image, or the return after the last.
startInitContainersStep ==
  /\ pc = "InitialContainers"
  /\ IF icIdx > Len(images)
       THEN /\ stepRet' = "nil"
            /\ pc' = "InitialContainers.ret"
            /\ UNCHANGED <<icIdx, icLog>>
       ELSE \E retrieveOk \in BOOLEAN, manifestOk \in BOOLEAN, seekOk \in BOOLEAN,
               createOk \in BOOLEAN, readTo \in 1..InitImageLen :
              LET log == pipeline(icIdx, retrieveOk, manifestOk, seekOk, createOk, readTo) IN
              /\ icLog' = icLog \o log
              /\ icIdx' = icNext(icIdx, log)
              /\ UNCHANGED <<pc, stepRet>>
  /\ UNCHANGED <<stepLog, cfgFile, diskConfig, config, mergeCalls, images,
                 readOnly, rpcStarted, rpcCreates>>
  /\ UNCHANGED <<mountVars, netVars, fmVars, crVars>>

\* Lines 280-282
readonly ==
  /\ pc = "ReadOnlyRemount"
  /\ pc' = "ReadOnlyRemount.ret"
  /\ \E ok \in BOOLEAN : stepRet' = IF ok THEN "nil" ELSE "err"
  /\ stepFrame

\* Lines 357-365: the server is started in the background.
startServer ==
  /\ pc = "RPCService"
  /\ pc' = "RPCService.ret"
  /\ stepRet' = "nil"
  /\ rpcStarted' = TRUE
  /\ UNCHANGED <<stepLog, cfgFile, diskConfig, config, mergeCalls, images, icIdx,
                 icLog, readOnly, rpcCreates>>
  /\ UNCHANGED <<mountVars, netVars, fmVars, crVars>>

\* The RPC service creates a container through the manager.
rpcCreate ==
  /\ rpcStarted
  /\ rpcCreates < MaxRpcCreates
  /\ rpcCreates' = rpcCreates + 1
  /\ UNCHANGED <<stepLog, stepRet, cfgFile, diskConfig, config, mergeCalls, images,
                 icIdx, icLog, readOnly, rpcStarted>>
  /\ UNCHANGED <<bootVars, netVars, fmVars, crVars>>

\* The boot sequencer: the step after a step that returned nil.
stepOf(p) ==
  CASE p = "Config.ret"            -> "Config"
    [] p = "Env.ret"               -> "Env"
    [] p = "Modules.ret"           -> "Modules"
    [] p = "Hostname.ret"          -> "Hostname"
    [] p = "Directories.ret"       -> "Directories"
    [] p = "Manager.ret"           -> "Manager"
    [] p = "InitialContainers.ret" -> "InitialContainers"
    [] p = "ReadOnlyRemount.ret"   -> "ReadOnlyRemount"
    [] p = "RPCService.ret"        -> "RPCService"

nextPc(step) ==
  CASE step = "Config"            -> "Mounts.check"
    [] step = "Env"               -> "Modules"
    [] step = "Modules"           -> "Hostname"
    [] step = "Hostname"          -> "Network"
    [] step = "Directories"       -> "Manager"
    [] step = "Manager"           -> "InitialContainers"
    [] step = "InitialContainers" -> IF readOnly THEN "ReadOnlyRemount" ELSE "RPCService"
    [] step = "ReadOnlyRemount"   -> "RPCService"
    [] step = "RPCService"        -> "Running"

Advance ==
  /\ pc \in {"Config.ret", "Env.ret", "Modules.ret", "Hostname.ret", "Directories.ret",
             "Manager.ret", "InitialContainers.ret", "ReadOnlyRemount.ret",
             "RPCService.ret"}
  /\ stepLog' = Append(stepLog, [step |-> stepOf(pc), ret |-> stepRet])
  /\ pc' = IF stepRet = "nil" THEN nextPc(stepOf(pc)) ELSE "Aborted"
  /\ UNCHANGED <<stepRet, cfgFile, diskConfig, config, mergeCalls, images, icIdx,
                 icLog, readOnly, rpcStarted, rpcCreates>>
  /\ UNCHANGED <<mountVars, netVars, fmVars, crVars>>

EnterNetwork ==
  /\ pc = "Network"
  /\ netPc = "idle"
  /\ pc' = "Network.run"
  /\ netPc' = "start"
  /\ UNCHANGED <<netConfig, links, linkIdx, ifaceLog, routeLog, resolvExists,
                 resolvLines, fdWritable, dnsIdx, netRet, netFail, envRefused>>
  /\ UNCHANGED <<mountVars, fmVars, crVars, seqVars>>

AfterNetwork ==
  /\ pc = "Network.run"
  /\ netPc = "ret"
  /\ stepLog' = Append(stepLog, [step |-> "Network", ret |-> netRet])
  /\ pc' = IF netRet = "nil" THEN "Directories" ELSE "Aborted"
  /\ UNCHANGED <<stepRet, cfgFile, diskConfig, config, mergeCalls, images, icIdx,
                 icLog, readOnly, rpcStarted, rpcCreates>>
  /\ UNCHANGED <<mountVars, netVars, fmVars, crVars>>

----------------------------------------------------------------------------
(* Initial states and specifications *)

\* A boot starts from any mount table: empty on a fresh boot, everything
\* mounted when kurma is launched by kurma.  /proc/mounts cannot be missing
\* while /proc is mounted.
BootInit ==
  /\ pc = "Mounts.check"
  /\ procStat \in {"notexist", "staterr", "readerr", "ok"}
  /\ mountTable \in SUBSET AllTargets
  /\ (procStat = "notexist") => (<<"proc">> \notin mountTable)
  /\ existingMounts = {}
  /\ mountIdx = 1
  /\ cgIdx = 1
  /\ mountLog = <<>>
  /\ mountsRet = "none"
  /\ cgroupsRet = "none"
  /\ useHierarchy \in {"0", "1"}
  /\ (cgroupLocation("memory") \notin mountTable) => (useHierarchy = "0")
  /\ hierWrite = "none"

BootIdle ==
  /\ pc = "idle"
  /\ procStat = "ok"
  /\ mountTable = {}
  /\ existingMounts = {}
  /\ mountIdx = 1
  /\ cgIdx = 1
  /\ mountLog = <<>>
  /\ mountsRet = "none"
  /\ cgroupsRet = "none"
  /\ useHierarchy = "0"
  /\ hierWrite = "none"

SeqsUpTo(S, n) == UNION {[1..k -> S] : k \in 0..n}

Injective(s) == \A i, j \in 1..Len(s) : i # j => s[i] # s[j]

LinkNames == { <<"e", "0">>, <<"e", "1">>, <<"e", "1", "0">> }

\* Device fields: two plain names, two patterns and a malformed pattern.
Devices == { <<"e", "0">>, <<"e", "1">>, <<"e", ".">>, <<"e", "1", "*">>, <<"*", "e">> }

\* Gateway strings: none, an address, a string that is not an address.
Gateways == { <<>>, <<10, 0, 0, 1>>, <<10, 0, 0, 256>> }

DNSServers == {"8.8.8.8", "8.8.4.4"}

OldResolv == << <<"nameserver", "127.0.0.1">> >>

NetInit ==
  /\ netPc = "start"
  /\ netConfig \in
       [present : {TRUE}, Interfaces : SeqsUpTo(Devices, MaxInterfaces),
        Gateway : Gateways,
        DNS : {d \in SeqsUpTo(DNSServers, MaxDNS) : Injective(d)}]
       \cup {[present |-> FALSE, Interfaces |-> <<>>, Gateway |-> <<>>, DNS |-> <<>>]}
  /\ links \in {l \in SeqsUpTo(LinkNames, MaxLinks) : Injective(l)}
  /\ linkIdx = 1
  /\ ifaceLog = <<>>
  /\ routeLog = <<>>
  /\ resolvExists = TRUE
  /\ resolvLines = OldResolv
  /\ fdWritable = FALSE
  /\ dnsIdx = 1
  /\ netRet = "none"
  /\ netFail = "none"
  /\ envRefused = FALSE

NetIdle ==
  /\ netPc = "idle"
  /\ netConfig = [present |-> FALSE, Interfaces |-> <<>>, Gateway |-> <<>>, DNS |-> <<>>]
  /\ links = <<>>
  /\ linkIdx = 1
  /\ ifaceLog = <<>>
  /\ routeLog = <<>>
  /\ resolvExists = FALSE
  /\ resolvLines = <<>>
  /\ fdWritable = FALSE
  /\ dnsIdx = 1
  /\ netRet = "none"
  /\ netFail = "none"
  /\ envRefused = FALSE

\* Entry names: manifest, ./manifest, rootfs/../manifest, /manifest,
\* rootfs/manifest, rootfs.
EntryNames ==
  { <<"manifest">>, <<".", "manifest">>, <<"rootfs", "..", "manifest">>,
    <<"", "manifest">>, <<"rootfs", "manifest">>, <<"rootfs">> }

Payloads == { <<1>>, <<1, 2>> }

Entries == [name : EntryNames, payload : Payloads, fault : {"none", "header", "payload"}]

FmInit ==
  /\ fmPc = "detect"
  /\ archive \in [detectOk : BOOLEAN, entries : SeqsUpTo(Entries, MaxEntries)]
  /\ entryIdx = 0
  /\ fmResult = [kind |-> "none", data |-> <<>>]
  /\ fpos = 0

FmIdle ==
  /\ fmPc = "idle"
  /\ archive = [detectOk |-> TRUE, entries |-> <<>>]
  /\ entryIdx = 0
  /\ fmResult = [kind |-> "none", data |-> <<>>]
  /\ fpos = 0

\* The configuration the boot starts from.
defaultConfiguration == [Hostname |-> "kurmaos", Modules |-> <<"e1000">>, Paths |-> "set"]

SeqIdle ==
  /\ stepLog = <<>>
  /\ stepRet = "none"
  /\ cfgFile = "notexist"
  /\ diskConfig = [Hostname |-> "", Modules |-> <<>>, Paths |-> ""]
  /\ config = defaultConfiguration
  /\ mergeCalls = 0
  /\ images = <<>>
  /\ icIdx = 1
  /\ icLog = <<>>
  /\ readOnly = FALSE
  /\ rpcStarted = FALSE
  /\ rpcCreates = 0

CrIdle ==
  /\ crPc = "idle"
  /\ crCalls = <<>>
  /\ uploadId = 0
  /\ crRet = "none"
  /\ crFail = "none"

Init == BootInit /\ NetIdle /\ FmIdle /\ CrIdle /\ SeqIdle

Next ==
  \/ createSystemMountsCheck
  \/ createSystemMountsStep
  \/ AfterMounts
  \/ mountCgroupsStep
  \/ AfterCgroups

Spec == Init /\ [][Next]_vars

NetNext ==
  \/ configureNetworkStart
  \/ configureNetworkLink
  \/ configureNetworkGateway
  \/ configureNetworkOpen
  \/ configureNetworkWrite

NetSpecInit == BootIdle /\ NetInit /\ FmIdle /\ CrIdle /\ SeqIdle

NetSpec == NetSpecInit /\ [][NetNext]_vars

ManifestNext ==
  \/ findManifestDetect
  \/ findManifestNext

ManifestSpecInit == BootIdle /\ NetIdle /\ FmInit /\ CrIdle /\ SeqIdle

ManifestSpec == ManifestSpecInit /\ [][ManifestNext]_vars

\* The images the client is given: entries named manifest or rootfs, whole
\* or with a payload that cannot be read.
CreateEntries == [name : {<<"manifest">>, <<"rootfs">>}, payload : Payloads,
                  fault : {"none", "payload"}]

CrInit ==
  /\ crPc = "open"
  /\ crCalls = <<>>
  /\ uploadId = 0
  /\ crRet = "none"
  /\ crFail = "none"
  /\ fmPc = "idle"
  /\ archive \in [detectOk : BOOLEAN, entries : SeqsUpTo(CreateEntries, MaxEntries)]
  /\ entryIdx = 0
  /\ fmResult = [kind |-> "none", data |-> <<>>]
  /\ fpos = 0

CreateNext ==
  \/ createOpen
  \/ findManifestDetect
  \/ findManifestNext
  \/ createSeek
  \/ createCreate
  \/ createUploadImage
  \/ createCopy
  \/ createCloseAndRecv

CreateSpecInit == BootIdle /\ NetIdle /\ CrInit /\ SeqIdle

CreateSpec == CreateSpecInit /\ [][CreateNext]_vars

DiskConfigs ==
  { [Hostname |-> "host1", Modules |-> <<>>, Paths |-> ""],
    [Hostname |-> "", Modules |-> <<"loop">>, Paths |-> ""] }

NoDiskConfig == [Hostname |-> "", Modules |-> <<>>, Paths |-> ""]

NoNetwork == [present |-> FALSE, Interfaces |-> <<>>, Gateway |-> <<>>, DNS |-> <<>>]

BootNetConfigs ==
  { NoNetwork,
    [present |-> TRUE, Interfaces |-> << <<"e", "0">> >>, Gateway |-> <<10, 0, 0, 1>>,
     DNS |-> <<>>],
    [present |-> TRUE, Interfaces |-> <<>>, Gateway |-> <<>>, DNS |-> <<"8.8.8.8">>] }

scenario(file, disk, stat, table, net, lks) ==
  [cfgFile |-> file, diskConfig |-> disk, procStat |-> stat, mountTable |-> table,
   netConfig |-> net, links |-> lks]

\* The machines a boot run starts on: a fresh boot with and without
\* /proc/mounts, kurma launched by kurma with the system mounts or all
\* mounts in place, a /proc/mounts that cannot be read, and each kind of
\* configuration file; with no network configured, an interface and a
\* gateway, or resolvers only.
BootScenarios ==
  LET e0    == << <<"e", "0">> >>
      ifgw  == CHOOSE n \in BootNetConfigs : n.present /\ n.Interfaces # <<>>
      dns   == CHOOSE n \in BootNetConfigs : n.present /\ n.DNS # <<>>
      disk1 == CHOOSE d \in DiskConfigs : d.Hostname # ""
      disk2 == CHOOSE d \in DiskConfigs : d.Modules # <<>> IN
  { scenario("notexist",    NoDiskConfig, "notexist", {},            NoNetwork, <<>>),
    scenario("valid",       disk1,        "ok",       {},            ifgw,      e0),
    scenario("valid",       disk2,        "ok",       SystemTargets, dns,       <<>>),
    scenario("notexist",    NoDiskConfig, "ok",       AllTargets,    ifgw,      <<>>),
    scenario("unparseable", NoDiskConfig, "ok",       {},            NoNetwork, e0),
    scenario("openerr",     NoDiskConfig, "ok",       {},            NoNetwork, e0),
    scenario("notexist",    NoDiskConfig, "staterr",  {},            NoNetwork, e0),
    scenario("valid",       disk1,        "readerr",  AllTargets,    dns,       e0) }

ImageNames == <<"a.aci", "b.aci", "c.aci", "d.aci">>

BootRunInit ==
  /\ pc = "Config"
  /\ \E sc \in BootScenarios :
       /\ cfgFile = sc.cfgFile
       /\ diskConfig = sc.diskConfig
       /\ procStat = sc.procStat
       /\ mountTable = sc.mountTable
       /\ netConfig = sc.netConfig
       /\ links = sc.links
  /\ existingMounts = {}
  /\ mountIdx = 1
  /\ cgIdx = 1
  /\ mountLog = <<>>
  /\ mountsRet = "none"
  /\ cgroupsRet = "none"
  /\ useHierarchy = "0"
  /\ hierWrite = "none"
  /\ netPc = "idle"
  /\ linkIdx = 1
  /\ ifaceLog = <<>>
  /\ routeLog = <<>>
  /\ resolvExists = TRUE
  /\ resolvLines = OldResolv
  /\ fdWritable = FALSE
  /\ dnsIdx = 1
  /\ netRet = "none"
  /\ netFail = "none"
  /\ envRefused = FALSE
  /\ stepLog = <<>>
  /\ stepRet = "none"
  /\ config = defaultConfiguration
  /\ mergeCalls = 0
  /\ images \in {SubSeq(ImageNames, 1, k) : k \in 0..MaxImages}
  /\ icIdx = 1
  /\ icLog = <<>>
  /\ readOnly \in BOOLEAN
  /\ rpcStarted = FALSE
  /\ rpcCreates = 0

BootNext ==
  \/ loadConfigurationFile
  \/ createSystemMountsCheck
  \/ createSystemMountsStep
  \/ AfterMounts
  \/ mountCgroupsStep
  \/ AfterCgroups
  \/ configureEnvironment
  \/ loadModules
  \/ configureHostname
  \/ EnterNetwork
  \/ configureNetworkStart
  \/ configureNetworkLink
  \/ configureNetworkGateway
  \/ configureNetworkOpen
  \/ configureNetworkWrite
  \/ AfterNetwork
  \/ createDirectories
  \/ launchManager
  \/ startInitContainersStep
  \/ readonly
  \/ startServer
  \/ rpcCreate
  \/ Advance

BootSpecInit == BootRunInit /\ FmIdle /\ CrIdle

BootSpec == BootSpecInit /\ [][BootNext]_vars

\* The two callers of findManifest side by side: create on one image file,
\* startInitContainers on one configured image.
RewindInit ==
  /\ pc = "InitialContainers"
  /\ procStat = "ok"
  /\ mountTable = {}
  /\ existingMounts = {}
  /\ mountIdx = 1
  /\ cgIdx = 1
  /\ mountLog = <<>>
  /\ mountsRet = "none"
  /\ cgroupsRet = "none"
  /\ useHierarchy = "0"
  /\ hierWrite = "none"
  /\ stepLog = <<>>
  /\ stepRet = "none"
  /\ cfgFile = "notexist"
  /\ diskConfig = [Hostname |-> "", Modules |-> <<>>, Paths |-> ""]
  /\ config = defaultConfiguration
  /\ mergeCalls = 0
  /\ images = SubSeq(ImageNames, 1, 1)
  /\ icIdx = 1
  /\ icLog = <<>>
  /\ readOnly = FALSE
  /\ rpcStarted = FALSE
  /\ rpcCreates = 0

RewindNext ==
  \/ createOpen
  \/ findManifestDetect
  \/ findManifestNext
  \/ createSeek
  \/ createCreate
  \/ createUploadImage
  \/ createCopy
  \/ createCloseAndRecv
  \/ startInitContainersStep

RewindSpecInit == RewindInit /\ NetIdle /\ CrInit

RewindSpec == RewindSpecInit /\ [][RewindNext]_vars

----------------------------------------------------------------------------
(* Properties of createSystemMounts and mountCgroups *)

ByCreateSystemMounts(e) == e.by = "createSystemMounts"
NotExisting(location)   == location \notin existingMounts

\* The handleMount calls createSystemMounts has made, in call order.
SysLog == SelectSeq(mountLog, ByCreateSystemMounts)

Targets(log) == [i \in 1..Len(log) |-> log[i].target]

MountFailed == SysLog # <<>> /\ ~SysLog[Len(SysLog)].ok

\* The number of entries of systemMounts the loop has dealt with.
EntriesDone == IF MountFailed THEN mountIdx ELSE mountIdx - 1

\* C1: createSystemMounts attempts the mounts of its list in the listed
\* order (the targets attempted so far are exactly the entries dealt with
\* that are not in the snapshot, in list order), and a failed mount is the
\* last one attempted: the function has returned an error with it.
C1_MountOrder ==
  /\ Targets(SysLog) = SelectSeq(SubSeq(systemMounts, 1, EntriesDone), NotExisting)
  /\ \A i \in 1..Len(SysLog) :
        ~SysLog[i].ok => (i = Len(SysLog) /\ mountsRet = "err")

\* A mount failed after an earlier one succeeded, and a later entry that is
\* not in the snapshot was left unattempted.
C1_Witness ==
  /\ Len(SysLog) >= 2
  /\ MountFailed
  /\ mountIdx < Len(systemMounts)
  /\ systemMounts[mountIdx + 1] \notin existingMounts
  /\ pc = "Aborted"

\* C2: createSystemMounts issues no mount for a target of the snapshot, and
\* when the snapshot holds every target of the list it returns nil having
\* issued no mount at all.
C2_ExistingSkipped ==
  /\ \A i \in 1..Len(SysLog) : SysLog[i].target \notin existingMounts
  /\ (mountsRet # "none" /\ procStat = "ok" /\ SystemTargets \subseteq existingMounts)
        => (mountsRet = "nil" /\ SysLog = <<>>)

\* createSystemMounts returned with every target in the snapshot.
C2_Witness ==
  /\ mountsRet = "nil"
  /\ SystemTargets \subseteq existingMounts
  /\ mountLog = <<>>

\* C3: over the boot a mount is applied at most once per target and never
\* to a target of the snapshot, cgroup controller targets included.
C3_OncePerTarget ==
  \A i \in 1..Len(mountLog) :
    mountLog[i].ok =>
      /\ mountLog[i].target \notin existingMounts
      /\ \A j \in 1..Len(mountLog) :
            (j # i /\ mountLog[j].ok) => mountLog[j].target # mountLog[i].target

\* C4: when the memory controller is mounted and the open or the write of
\* memory.use_hierarchy fails, mountCgroups returns an error; it returns nil
\* only with the memory controller mounted and "1" written.
C4_HierarchyFatal ==
  /\ hierWrite \in {"openfailed", "writefailed"} => cgroupsRet = "err"
  /\ cgroupsRet = "nil" =>
        /\ hierWrite = "written"
        /\ useHierarchy = "1"
        /\ cgroupLocation("memory") \in mountTable

\* The memory controller was mounted and the write of its control file failed.
C4_Witness ==
  /\ hierWrite = "writefailed"
  /\ mountLog # <<>>
  /\ mountLog[Len(mountLog)] =
       [by |-> "mountCgroups", target |-> cgroupLocation("memory"), ok |-> TRUE]
  /\ cgroupsRet = "err"

----------------------------------------------------------------------------
(* Properties of configureNetwork *)

Interfaces == netConfig.Interfaces

ExactAt(k, linkName)  == Interfaces[k] = linkName
RegexpAt(k, linkName) == MatchString(Interfaces[k], linkName)
MatchAt(k, linkName)  == ExactAt(k, linkName) \/ RegexpAt(k, linkName)

Least(S) == CHOOSE k \in S : \A m \in S : k <= m

ExactEntries(linkName)  == {k \in 1..Len(Interfaces) : ExactAt(k, linkName)}
RegexpEntries(linkName) == {k \in 1..Len(Interfaces) : RegexpAt(k, linkName)}

\* One "nameserver <ip>" line per configured server, in configured order.
ConfiguredResolv == [i \in 1..Len(netConfig.DNS) |-> <<"nameserver", netConfig.DNS[i]>>]

\* C5 as stated: the entry selected for a link is the first entry equal to
\* the link name when there is one, and only otherwise the first entry that
\* matches it as a regular expression.
C5_ExactFirst ==
  \A i \in 1..Len(ifaceLog) :
    LET l == ifaceLog[i].link IN
    ifaceLog[i].entry =
      IF ExactEntries(l) # {} THEN Least(ExactEntries(l))
      ELSE IF RegexpEntries(l) # {} THEN Least(RegexpEntries(l))
      ELSE 0

\* C5, amended: the entry selected for a link is the first entry, in list
\* order, whose device field equals the link name or matches it as a
\* regular expression; no entry is selected when there is none.
C5_FirstMatchInOrder ==
  \A i \in 1..Len(ifaceLog) :
    LET l == ifaceLog[i].link
        k == ifaceLog[i].entry IN
    /\ k \in 0..Len(Interfaces)
    /\ k > 0 => MatchAt(k, l)
    /\ \A m \in 1..Len(Interfaces) : (k = 0 \/ m < k) => ~MatchAt(m, l)

\* A link got an entry that matches it only as a regular expression while a
\* later entry equals its name.
C5_Witness ==
  \E i \in 1..Len(ifaceLog) :
    LET l == ifaceLog[i].link
        k == ifaceLog[i].entry IN
    /\ k > 0
    /\ ~ExactAt(k, l)
    /\ \E m \in (k + 1)..Len(Interfaces) : ExactAt(m, l)

\* C6: a configured gateway that does not parse as an IP address leads to no
\* RouteAdd call.
C6_UnparseableSkipped ==
  (netConfig.present /\ netConfig.Gateway # <<>> /\ ParseIP(netConfig.Gateway) = nilIP)
    => routeLog = <<>>

\* C7: whenever configureNetwork has returned nil with a non-empty DNS list,
\* a failed RouteAdd included, the resolver file holds the configured servers.
C7_ResolverAfterGatewayFailure ==
  (netRet = "nil" /\ netConfig.present /\ Len(netConfig.DNS) > 0)
    => (resolvExists /\ resolvLines = ConfiguredResolv)

\* C8: with a non-empty DNS list, a link enumeration that succeeded, no
\* failure in the gateway step and no remove, create or write refused by
\* the environment, configureNetwork returns nil and the resolver file is
\* exactly the configured lines.
C8_ResolverRewritten ==
  ( /\ netPc = "ret"
    /\ netConfig.present
    /\ Len(netConfig.DNS) > 0
    /\ netFail # "LinkList"
    /\ \A i \in 1..Len(routeLog) : routeLog[i].ok /\ routeLog[i].gw # nilIP
    /\ ~envRefused )
    => (netRet = "nil" /\ resolvExists /\ resolvLines = ConfiguredResolv)

\* C9: every link is dealt with in turn whatever happened to the links
\* before it (no entry, or a failed configureInterface), a link has no entry
\* only when no entry matches it, and configureNetwork returns no error
\* because of a link.
C9_LinksIndependent ==
  /\ netPc = "links" => (netRet = "none" /\ Len(ifaceLog) = linkIdx - 1)
  /\ (netPc \in {"dns", "write", "ret"} /\ netConfig.present /\ netFail # "LinkList")
       => Len(ifaceLog) = Len(links)
  /\ \A i \in 1..Len(ifaceLog) :
       /\ ifaceLog[i].link = links[i]
       /\ ifaceLog[i].entry = 0 <=> (\A m \in 1..Len(Interfaces) : ~MatchAt(m, links[i]))
  /\ netRet = "err" => netFail \in {"LinkList", "RemoveAll", "OpenFile", "Fprintf"}

\* configureInterface failed for the first link, the second was configured,
\* and configureNetwork returned nil.
C9_Witness ==
  /\ Len(ifaceLog) = 2
  /\ ifaceLog[1].entry > 0 /\ ~ifaceLog[1].ok
  /\ ifaceLog[2].entry > 0 /\ ifaceLog[2].ok
  /\ netRet = "nil"

----------------------------------------------------------------------------
(* Properties of findManifest *)

ManifestEntries ==
  {k \in 1..Len(archive.entries) : Clean(archive.entries[k].name) = <<"manifest">>}

\* The arch.Next calls that return an error other than io.EOF.
FailingNexts ==
  {k \in 1..Len(archive.entries) : archive.entries[k].fault = "header"}
  \cup {k + 1 : k \in {m \in 1..Len(archive.entries) : archive.entries[m].fault = "payload"}}

Before(k, S) == \A m \in S : k < m

\* C10: once findManifest has returned on a stream whose compression was
\* detected: it returned the whole payload of the first entry whose cleaned
\* name is "manifest" when the entries up to it and its payload were read
\* without error; the manifest-not-found error exactly when the entries ran
\* out with no such entry and no read error; and the read error when one
\* came first.
C10_FindManifest ==
  /\ (fmPc = "ret" /\ ~archive.detectOk) => fmResult = [kind |-> "ioerr", data |-> <<>>]
  /\ (fmPc = "ret" /\ archive.detectOk) =>
    LET M == ManifestEntries
        E == FailingNexts IN
    /\ fmResult.kind = "notfound" <=> (M = {} /\ E = {})
    /\ fmResult.kind = "payload" <=>
         (M # {} /\ Before(Least(M), E) /\ archive.entries[Least(M)].fault = "none")
    /\ fmResult.kind = "payload" => fmResult.data = archive.entries[Least(M)].payload
    /\ fmResult.kind = "ioerr" <=>
         \/ (E # {} /\ (M = {} \/ Least(E) <= Least(M)))
         \/ (M # {} /\ archive.entries[Least(M)].fault = "payload")
    /\ fmResult.kind # "payload" => fmResult.data = <<>>

\* The payload of a second entry named ./manifest was returned in full.
C10_Witness ==
  /\ fmPc = "ret"
  /\ Len(archive.entries) = 2
  /\ archive.entries[1].name = <<"rootfs", "manifest">>
  /\ archive.entries[2].name = <<".", "manifest">>
  /\ fmResult = [kind |-> "payload", data |-> <<1, 2>>]

----------------------------------------------------------------------------
(* The upload of create (cmd_create.go, lines 50-73) *)

Chunks == SelectSeq(crCalls, LAMBDA c : c.op = "chunk")

RECURSIVE received(_)
received(chunks) ==
  IF chunks = <<>> THEN <<>> ELSE chunks[1].data \o received(Tail(chunks))

CeilDiv(n, c) == (n + c - 1) \div c

CallsOf(op) == {i \in 1..Len(crCalls) : crCalls[i].op = op}

\* C12: a successful upload of an image of N bytes sends ceil(N / ChunkSize)
\* chunks, each of them not empty and tagged with the ImageUploadId of the
\* Create response; the chunks put together in the order sent are the image,
\* N bytes in all.
C12_ChunkCount ==
  (crRet = "nil") =>
    /\ Len(Chunks) = CeilDiv(Len(Image), ChunkSize)
    /\ crCalls[1].op = "Create" /\ crCalls[1].ok
    /\ \A i \in 1..Len(Chunks) :
         /\ Chunks[i].id = crCalls[1].id
         /\ Len(Chunks[i].data) \in 1..ChunkSize
    /\ received(Chunks) = Image
    /\ Len(received(Chunks)) = Len(Image)

C12_Witness ==
  /\ crRet = "nil"
  /\ Len(Image) > ChunkSize
  /\ Len(Image) % ChunkSize # 0
  /\ Len(Chunks) = (Len(Image) \div ChunkSize) + 1

\* C13: create returns nil only when every chunk was written, the stream was
\* then closed and its one acknowledgement received; a chunk that fails to
\* be written is the last call made and create returns an error, and so it
\* does when the acknowledgement fails.
C13_NoPartialSuccess ==
  /\ (crRet = "nil") =>
       /\ \A i \in CallsOf("chunk") : crCalls[i].ok
       /\ received(Chunks) = Image
       /\ CallsOf("CloseAndRecv") = {Len(crCalls)}
       /\ crCalls[Len(crCalls)].ok
  /\ \A i \in CallsOf("chunk") :
       ~crCalls[i].ok => i = Len(crCalls) /\ crPc = "ret" /\ crRet = "err"
  /\ \A i \in CallsOf("CloseAndRecv") :
       ~crCalls[i].ok => i = Len(crCalls) /\ crPc = "ret" /\ crRet = "err"

C13_Witness ==
  /\ crPc = "ret"
  /\ crFail = "Write"
  /\ Len(Chunks) = 2
  /\ fpos < Len(Image)

\* C14: every UploadImage call and every chunk comes after the one Create
\* call, which succeeded; a Create call that fails is the last call made and
\* create returns an error.
C14_CreateBeforeUpload ==
  /\ \A i \in CallsOf("UploadImage") \cup CallsOf("chunk") :
       CallsOf("Create") = {1} /\ crCalls[1].ok /\ i > 1
  /\ \A i \in CallsOf("Create") :
       ~crCalls[i].ok => i = Len(crCalls) /\ crPc = "ret" /\ crRet = "err"

C14_Witness ==
  /\ crPc = "ret"
  /\ crFail = "Create"
  /\ Len(crCalls) = 1
  /\ ~crCalls[1].ok

\* C20: a remote call is made only after the file was opened, the manifest
\* found and the file rewound; when one of the three fails create returns an
\* error and has made no call.
C20_LocalPrepFirst ==
  /\ (crCalls # <<>>) =>
       /\ fmResult.kind = "payload"
       /\ crFail \notin {"Open", "findManifest", "Seek"}
  /\ (crFail \in {"Open", "findManifest", "Seek"}) =>
       crCalls = <<>> /\ crPc = "ret" /\ crRet = "err"

C20_Witness ==
  /\ crPc = "ret"
  /\ crFail = "findManifest"
  /\ fmResult.kind = "notfound"
  /\ archive.entries # <<>>
  /\ crCalls = <<>>

----------------------------------------------------------------------------
(* The rewind after findManifest in its two callers *)

CreateEvents == {i \in 1..Len(icLog) : icLog[i].stage = "Create"}

SeekEvents == {i \in 1..Len(icLog) : icLog[i].stage = "Seek"}

\* C11: in create the file is at offset 0 when Client.Create and UploadImage
\* are called and when the copy starts, so that what the copy has sent is
\* always the image from its first byte on and, on success, the whole image;
\* in startInitContainers the stream is at offset 0 at every Manager.Create,
\* which directly follows the successful rewind of the same image.  After a
\* rewind that failed create makes no call and startInitContainers makes no
\* Manager.Create for that image.
C11_RewoundBeforeHandOn ==
  /\ (crPc \in {"Create", "UploadImage"}) => fpos = 0
  /\ (crPc \in {"copy", "CloseAndRecv"}) => received(Chunks) = SubSeq(Image, 1, fpos)
  /\ (crRet = "nil") => received(Chunks) = Image
  /\ (crFail = "Seek") => crCalls = <<>> /\ crRet = "err"
  /\ \A i \in CreateEvents :
       /\ icLog[i].offset = 0
       /\ i > 1
       /\ icLog[i - 1].stage = "Seek" /\ icLog[i - 1].ok /\ icLog[i - 1].n = icLog[i].n
  /\ \A i \in SeekEvents :
       ~icLog[i].ok => (i = Len(icLog) \/ icLog[i + 1].n # icLog[i].n)

C11_Witness ==
  /\ crRet = "nil"
  /\ fmResult.kind = "payload"
  /\ Len(Image) > 1
  /\ \E i \in CreateEvents : icLog[i].ok /\ icLog[i].offset = 0 /\ icLog[i - 2].offset > 0

----------------------------------------------------------------------------
(* startInitContainers (bootstrap.go, lines 325-354) *)

Stages == <<"RetrieveImage", "findManifest", "Seek", "Create">>

StageNo(stage) == CHOOSE k \in 1..Len(Stages) : Stages[k] = stage

EventsOf(n) == {i \in 1..Len(icLog) : icLog[i].n = n}

Returned(step) == \E i \in 1..Len(stepLog) : stepLog[i].step = step

ReturnOf(step) == stepLog[CHOOSE i \in 1..Len(stepLog) : stepLog[i].step = step].ret

\* C15: the images are attempted in the configured order, each pipeline run
\* stage by stage to its end (a failed stage or Manager.Create) before the
\* next image starts; a failed stage is followed by nothing but the first
\* stage of the next image; when startInitContainers has returned every
\* configured image was attempted, and it has returned nil.
C15_ImagesIndependent ==
  /\ icIdx \in 1..(Len(images) + 1)
  /\ \A n \in 1..Len(images) : (EventsOf(n) # {}) <=> (n < icIdx)
  /\ \A i \in 1..Len(icLog) :
       LET e == icLog[i] IN
       /\ IF i = 1 \/ icLog[Max2(i - 1, 1)].n # e.n
            THEN /\ e.stage = "RetrieveImage"
                 /\ e.n = IF i = 1 THEN 1 ELSE icLog[i - 1].n + 1
            ELSE /\ icLog[i - 1].ok
                 /\ StageNo(e.stage) = StageNo(icLog[i - 1].stage) + 1
       /\ (i = Len(icLog) \/ icLog[Min2(i + 1, Len(icLog))].n # e.n)
            => (~e.ok \/ e.stage = "Create")
  /\ Returned("InitialContainers") =>
       /\ icIdx = Len(images) + 1
       /\ ReturnOf("InitialContainers") = "nil"

C15_Witness ==
  /\ Returned("InitialContainers")
  /\ Len(images) = 2
  /\ \E i \in EventsOf(1) : icLog[i].stage = "Seek" /\ ~icLog[i].ok
  /\ \E i \in EventsOf(2) : icLog[i].stage = "Create" /\ icLog[i].ok

----------------------------------------------------------------------------
(* The order of the boot steps *)

StepOrder ==
  <<"Config", "Mounts", "Cgroups", "Env", "Modules", "Hostname", "Network",
    "Directories", "Manager", "InitialContainers", "ReadOnlyRemount", "RPCService">>

\* The steps of this run: the read-only remount is one only when asked for.
RunOrder == SelectSeq(StepOrder, LAMBDA st : st # "ReadOnlyRemount" \/ readOnly)

\* The step the run is in, from the position of the control.
StepAt(p) ==
  CASE p \in {"Config", "Config.ret"}                       -> "Config"
    [] p \in {"Mounts.check", "Mounts.loop", "Mounts.ret"}  -> "Mounts"
    [] p \in {"Cgroups.loop", "Cgroups.ret"}                -> "Cgroups"
    [] p \in {"Env", "Env.ret"}                             -> "Env"
    [] p \in {"Modules", "Modules.ret"}                     -> "Modules"
    [] p \in {"Hostname", "Hostname.ret"}                   -> "Hostname"
    [] p \in {"Network", "Network.run"}                     -> "Network"
    [] p \in {"Directories", "Directories.ret"}             -> "Directories"
    [] p \in {"Manager", "Manager.ret"}                     -> "Manager"
    [] p \in {"InitialContainers", "InitialContainers.ret"} -> "InitialContainers"
    [] p \in {"ReadOnlyRemount", "ReadOnlyRemount.ret"}     -> "ReadOnlyRemount"
    [] p \in {"RPCService", "RPCService.ret"}               -> "RPCService"

StepFailed == \E i \in 1..Len(stepLog) : stepLog[i].ret # "nil"

CgroupMountFailed ==
  \E i \in 1..Len(mountLog) : mountLog[i].by = "mountCgroups" /\ ~mountLog[i].ok

C16_AbortWitness ==
  /\ pc = "Aborted"
  /\ CgroupMountFailed
  /\ Len(stepLog) = 3
  /\ ~rpcStarted

----------------------------------------------------------------------------
(* The memory cgroup at the creation of a container *)

ManagerCreateCalled == CreateEvents # {} \/ rpcCreates > 0

\* C17: whenever Manager.Create has been called in a boot run, by
\* startInitContainers or by the RPC service, mountCgroups had returned nil
\* with the memory controller mounted and "1" written to its
\* memory.use_hierarchy file.
C17_MemoryHierarchyBeforeCreate ==
  ManagerCreateCalled =>
    /\ Returned("Cgroups") /\ ReturnOf("Cgroups") = "nil"
    /\ cgroupLocation("memory") \in mountTable
    /\ \E i \in 1..Len(mountLog) :
         mountLog[i].target = cgroupLocation("memory") /\ mountLog[i].ok
    /\ hierWrite = "written"
    /\ useHierarchy = "1"

C17_Witness ==
  /\ \E i \in CreateEvents : icLog[i].ok
  /\ rpcCreates > 0
  /\ hierWrite = "written"
  /\ cgroupLocation("memory") \in mountTable

----------------------------------------------------------------------------
(* loadConfigurationFile (bootstrap.go, lines 26-43) *)

ConfigReturned == pc # "Config"

ConfigRet == IF pc = "Config.ret" THEN stepRet ELSE ReturnOf("Config")

\* C18: once loadConfigurationFile has returned: with no configuration file
\* it returned nil and the configuration is the defaults; with a file that
\* cannot be parsed it returned an error, nothing was merged and the
\* configuration is the defaults; a merge was made only of a file that
\* parsed, once, over the defaults.
C18_LoadConfigurationFile ==
  /\ ~ConfigReturned => mergeCalls = 0 /\ config = defaultConfiguration
  /\ ConfigReturned =>
       /\ (cfgFile = "notexist") =>
            ConfigRet = "nil" /\ mergeCalls = 0 /\ config = defaultConfiguration
       /\ (cfgFile = "unparseable") =>
            ConfigRet = "err" /\ mergeCalls = 0 /\ config = defaultConfiguration
       /\ (mergeCalls > 0) =>
            /\ cfgFile = "valid"
            /\ mergeCalls = 1
            /\ ConfigRet = "nil"
            /\ config = mergeConfig(defaultConfiguration, diskConfig)
       /\ (cfgFile = "valid") => mergeCalls = 1

C18_Witness ==
  /\ pc = "Aborted"
  /\ cfgFile = "unparseable"
  /\ stepLog = <<[step |-> "Config", ret |-> "err"]>>
  /\ config = defaultConfiguration

C18_MergeWitness ==
  /\ ConfigReturned
  /\ cfgFile = "valid"
  /\ mergeCalls = 1
  /\ config # defaultConfiguration

----------------------------------------------------------------------------
(* Mounts and their ancestors *)

IsProperPrefix(a, b) == Len(a) < Len(b) /\ SubSeq(b, 1, Len(a)) = a

Ancestors(target) == {a \in AllTargets : IsProperPrefix(a, target)}

AttemptsOf(target) == {i \in 1..Len(mountLog) : mountLog[i].target = target}

MountedBefore(a, i) ==
  \/ a \in existingMounts
  \/ \E j \in 1..(i - 1) : mountLog[j].target = a /\ mountLog[j].ok

\* C19: a mount is attempted only when every mount location above it is
\* mounted, found in the snapshot or mounted by an earlier attempt that
\* succeeded; an attempt at an ancestor never comes after an attempt at
\* what lies under it; the cgroup controllers are attempted only with the
\* cgroup root mounted.
C19_AncestorsFirst ==
  /\ \A i \in 1..Len(mountLog) :
       \A a \in Ancestors(mountLog[i].target) :
         /\ MountedBefore(a, i)
         /\ \A j \in AttemptsOf(a) : j < i
  /\ \A i \in 1..Len(mountLog) :
       (mountLog[i].by = "mountCgroups") =>
         /\ cgroupsMount \in mountTable
         /\ MountedBefore(cgroupsMount, i)

C19_Witness ==
  /\ cgroupsRet = "nil"
  /\ AttemptsOf(<<"dev">>) # {}
  /\ AttemptsOf(<<"dev", "pts">>) # {}
  /\ AttemptsOf(<<"sys">>) # {}
  /\ AttemptsOf(cgroupsMount) # {}
  /\ \A c \in CgroupTargets : AttemptsOf(c) # {}

====
